---- MODULE Spec2Model ----
(***************************************************************************)
(* RAT transport protocol (src/rat.py): the RatSocket connection object,   *)
(* its public operations and the datagram socket underneath it.            *)
(*                                                                         *)
(* Every operation is modelled by what CPython does when it runs the       *)
(* method.  Several methods reach a name that is never bound               *)
(* (flag_header, construct_header, state_check, zero_pad as bare names,    *)
(* retry_times in connect); the interpreter raises NameError or            *)
(* UnboundLocalError at that line and the rest of the method is not run.   *)
(* The outcome of a call ("None", "False" or the exception's name) is      *)
(* recorded in ev.                                                         *)
(***************************************************************************)
EXTENDS Integers, Sequences, FiniteSets, TLC

VARIABLES
    current_state,   \* [SockIds -> States]            self.current_state
    stream_id,       \* [SockIds -> Nat]               self.stream_id
    seq_num,         \* [SockIds -> Nat]               self.seq_num
    window_size,     \* [SockIds -> Nat]               self.window_size
    remote_addr,     \* [SockIds -> address]           self.remote_addr
    num_connections, \* [SockIds -> Nat]               self.num_connections
    active_streams,  \* [SockIds -> Seq(SockIds)]      self.active_streams
    udp_timeout,     \* [SockIds -> 0 (None) or secs]  self.udp.gettimeout()
    udp_port,        \* [SockIds -> 0 (unbound) or port of self.udp]
    constructed,     \* set of RatSocket objects that exist
    inbox,           \* [SockIds -> Seq(datagram)] queued at self.udp
    sent,            \* [SockIds -> Seq(datagram)] sent through self.udp
    pc,              \* [SockIds -> position of the caller inside accept]
    ev               \* the last call that returned or raised

vars == << current_state, stream_id, seq_num, window_size, remote_addr,
           num_connections, active_streams, udp_timeout, udp_port,
           constructed, inbox, sent, pc, ev >>

----------------------------------------------------------------------------
(* Program constants                                                       *)

RAT_MAX_STREAM_ID == 65535
RAT_RETRY_TIMES == 5
RAT_HEADER_SIZE == 64
RAT_PAYLOAD_SIZE == 512
RAT_DEFAULT_WINDOW == 5
RAT_REPLY_TIMEOUT == 4

SOCK_UNOPENED == "SOCK_UNOPENED"
SOCK_SERVOPEN == "SOCK_SERVOPEN"
SOCK_HLOSENT == "SOCK_HLOSENT"
SOCK_HLORECV == "SOCK_HLORECV"
SOCK_ESTABLISHED == "SOCK_ESTABLISHED"
SOCK_BYESENT == "SOCK_BYESENT"
SOCK_BYERECV == "SOCK_BYERECV"
SOCK_CLOSED == "SOCK_CLOSED"

State == { SOCK_UNOPENED, SOCK_SERVOPEN, SOCK_HLOSENT, SOCK_HLORECV,
           SOCK_ESTABLISHED, SOCK_BYESENT, SOCK_BYERECV, SOCK_CLOSED }

RAT_FLAG_ORDER == << "ACK", "NACK", "SWIN", "RST", "ALI", "HLO", "BYE", "EXP" >>

Flag == { RAT_FLAG_ORDER[i] : i \in 1..8 }

----------------------------------------------------------------------------
(* Bounds of the model                                                     *)

MaxChildren == 2     \* RatSocket objects that accept may construct
MaxInbox == 1        \* datagrams queued at the sockets, all together
MaxSeqNum == 1       \* ack() is called this often from a starting seq_num
NumStreamIds == 2    \* randrange draws from 1..NumStreamIds

Servers == { 1 }                          \* socket of the server program
Clients == { 2 }                          \* socket of the client program
Tops == Servers \cup Clients              \* sockets the programs construct
Kids == { 10 + i : i \in 1..MaxChildren } \* sockets accept constructs
SockIds == Tops \cup Kids

Ports == { 50001 }                        \* port given to listen / connect
EphemeralPort(s) == 60000 + s             \* port the OS gives an unbound socket
PayloadLens == { 0, 1, 512, 2561 }        \* lengths of the byte strings sent
NackLists == { << >>, << 3, 5 >> }        \* arguments given to nack
SeqStarts == { 0, 65535 }                 \* seq_num the counting starts from

LOCALHOST0 == << "localhost", 0 >>        \* remote_addr after construction
ServerAddr(p) == << "127.0.0.1", p >>

----------------------------------------------------------------------------
(* Byte strings are sequences of one-character strings.                    *)

RECURSIVE bin(_)
\* bin(int(num))[2:] : the binary digits of num, "0" for 0
bin(n) ==
    IF n < 2 THEN << (IF n = 1 THEN "1" ELSE "0") >>
    ELSE bin(n \div 2) \o << (IF n % 2 = 1 THEN "1" ELSE "0") >>

Repeat(c, n) == [ i \in 1..n |-> c ]

\* zero_pad raises AssertionError(ERR_NUM_OUT_OF_RANGE) when padding < 0
zero_pad_raises(num, length) == length - Len(bin(num)) < 0

\* zero_pad without the leading zeros of line 386
zero_pad_unpadded(num, length) == bin(num)

zero_pad(num, length) == Repeat("0", length - Len(bin(num))) \o bin(num)

\* flag_set: one character per flag of RAT_FLAG_ORDER
flag_set(flags) ==
    [ i \in 1..8 |-> IF RAT_FLAG_ORDER[i] \in flags THEN "1" ELSE "0" ]

\* flag_decode: the flags whose character is "1", in RAT_FLAG_ORDER
\* (`is "1"` holds exactly for the character "1": CPython shares
\* one-character strings)
flag_decode(flag_field_bits) ==
    LET idx == SelectSeq([ i \in 1..8 |-> i ],
                         LAMBDA i : flag_field_bits[i] = "1")
    IN  [ j \in 1..Len(idx) |-> RAT_FLAG_ORDER[idx[j]] ]

InList(x, list) == \E i \in 1..Len(list) : list[i] = x

construct_header_raises(sid, seq, length, offset) ==
    \/ zero_pad_raises(sid, 16)
    \/ zero_pad_raises(seq, 16)
    \/ zero_pad_raises(length, 16)
    \/ zero_pad_raises(offset, 8)

\* construct_header of a socket whose stream_id is sid and seq_num is seq
construct_header(sid, seq, length, flags, offset) ==
    zero_pad(sid, 16) \o zero_pad(seq, 16) \o zero_pad(length, 16)
        \o flags \o zero_pad(offset, 8)

IsBinary(bs) == \A i \in 1..Len(bs) : bs[i] \in { "0", "1" }

RECURSIVE int2(_)
\* int(bs, 2) of a non-empty string of binary digits
int2(bs) ==
    IF Len(bs) = 0 THEN 0
    ELSE 2 * int2(SubSeq(bs, 1, Len(bs) - 1))
             + (IF bs[Len(bs)] = "1" THEN 1 ELSE 0)

\* decode_rat_header: "IOError" (ERR_HEADER_INVALID) unless 64 bytes long,
\* "ValueError" when int() meets a byte that is not a binary digit
decode_rat_header_error(bs) ==
    IF Len(bs) # RAT_HEADER_SIZE THEN "IOError:ERR_HEADER_INVALID"
    ELSE IF ~ IsBinary(SubSeq(bs, 1, 48)) \/ ~ IsBinary(SubSeq(bs, 57, 64))
         THEN "ValueError"
         ELSE "ok"

decode_rat_header(bs) ==
    [ stream_id |-> int2(SubSeq(bs, 1, 16)),
      seq_num   |-> int2(SubSeq(bs, 17, 32)),
      length    |-> int2(SubSeq(bs, 33, 48)),
      flags     |-> SubSeq(bs, 49, 56),
      offset    |-> int2(SubSeq(bs, 57, 64)) ]

\* udp.recvfrom(bufsize) returns at most bufsize bytes of the datagram
recvfrom(data, bufsize) ==
    IF Len(data) > bufsize THEN SubSeq(data, 1, bufsize) ELSE data

\* state_check(state): `state` is one State (is_list = FALSE) or a list
state_check(cur, state, is_list) ==
    IF is_list
    THEN IF cur \in state THEN "ok" ELSE "IOError:ERR_STATE"
    ELSE IF cur # state THEN "TypeError" ELSE "ok"

----------------------------------------------------------------------------
(* The datagram socket                                                     *)

\* self.udp.sendto(data, addr) raises OSError (EINVAL) for port 0, the port
\* of the remote_addr every RatSocket is constructed with
sendto_raises(addr) == addr[2] = 0

\* sendto binds an unbound socket to a port of the system's choice
autobind(s) == IF udp_port[s] = 0 THEN EphemeralPort(s) ELSE udp_port[s]

Datagram(src, data) == [ src |-> src, data |-> data ]

RECURSIVE nack_payload(_)
\* ''.join(zero_pad(x) for x in seq_nums), 16 bits for each number
nack_payload(seq_nums) ==
    IF Len(seq_nums) = 0 THEN << >>
    ELSE zero_pad(Head(seq_nums), 16) \o nack_payload(Tail(seq_nums))

\* The NACK segment of a peer: header (length of the list in bits, NACK,
\* offset = how many numbers) followed by the list
NackSegment(sid, seq, seq_nums) ==
    construct_header(sid, seq, Len(nack_payload(seq_nums)),
                     flag_set({ "NACK" }), Len(seq_nums))
        \o nack_payload(seq_nums)

Peer1 == << "10.0.0.1", 7001 >>
Peer2 == << "10.0.0.2", 7002 >>

\* What remote peers put on the wire towards a socket of the model
EnvDatagrams ==
    { Datagram(Peer1, construct_header(0, 0, 0, flag_set({ "HLO" }), 0)),
      Datagram(Peer2, construct_header(0, 0, 0, flag_set({ "HLO" }), 0)),
      Datagram(Peer1, construct_header(1, 1, 0, flag_set({ "ACK" }), 0)),
      Datagram(Peer1, NackSegment(1, 1, << 3, 5 >>)),
      Datagram(Peer1, << "0", "1", "0", "1" >>),
      Datagram(Peer1, Repeat("x", RAT_HEADER_SIZE)) }

IsHlo(d) ==
    LET raw == recvfrom(d.data, RAT_HEADER_SIZE)
    IN  /\ decode_rat_header_error(raw) = "ok"
        /\ InList("HLO", flag_decode(decode_rat_header(raw).flags))

QueuedHlos(s) == Cardinality({ i \in 1..Len(inbox[s]) : IsHlo(inbox[s][i]) })

RECURSIVE SumOver(_, _)
SumOver(f, S) ==
    IF S = {} THEN 0
    ELSE LET x == CHOOSE y \in S : TRUE IN f[x] + SumOver(f, S \ { x })

----------------------------------------------------------------------------
(* The record of the last call                                             *)

NoFlags == << >>
NoData == << >>

\* sock, op: the call; res: "None", "False" or the exception raised;
\* pre, seq0: current_state and seq_num when it was made; io: a bind, sendto
\* or recvfrom was attempted; nsent, nrecv: datagrams sent and received;
\* flags: the flags of the header accept decoded; arg: len(bytes) of send,
\* buffer_size of recv; data: the bytes recv returned
Ev(s, op, res, io, nsent, nrecv, flags, arg) ==
    [ sock |-> s, op |-> op, res |-> res, pre |-> current_state[s],
      seq0 |-> seq_num[s], io |-> io, nsent |-> nsent, nrecv |-> nrecv,
      flags |-> flags, arg |-> arg, data |-> NoData ]

NoEv ==
    [ sock |-> 0, op |-> "none", res |-> "None", pre |-> SOCK_UNOPENED,
      seq0 |-> 0, io |-> FALSE, nsent |-> 0, nrecv |-> 0,
      flags |-> NoFlags, arg |-> 0, data |-> NoData ]

----------------------------------------------------------------------------
(* Construction                                                            *)

\* RatSocket.__init__ for every object, those accept constructs included
Init ==
    /\ current_state = [ s \in SockIds |-> SOCK_UNOPENED ]
    /\ stream_id = [ s \in SockIds |-> 0 ]
    /\ seq_num = [ s \in SockIds |-> 0 ]
    /\ window_size = [ s \in SockIds |-> 0 ]
    /\ remote_addr = [ s \in SockIds |-> LOCALHOST0 ]
    /\ num_connections = [ s \in SockIds |-> 0 ]
    /\ active_streams = [ s \in SockIds |-> << >> ]
    /\ udp_timeout = [ s \in SockIds |-> 0 ]
    /\ udp_port = [ s \in SockIds |-> 0 ]
    /\ constructed = Tops
    /\ inbox = [ s \in SockIds |-> << >> ]
    /\ sent = [ s \in SockIds |-> << >> ]
    /\ pc = [ s \in SockIds |-> "idle" ]
    /\ ev = NoEv

----------------------------------------------------------------------------
(* Operations of RatSocket                                                 *)

Idle(s) == s \in constructed /\ pc[s] = "idle"

\* listen(address, port, num_connections)
Listen(s, port, n) ==
    /\ Idle(s)
    /\ IF state_check(current_state[s], SOCK_UNOPENED, FALSE) # "ok"
       THEN \* state_check raises: `in` applied to a State member
            /\ ev' = Ev(s, "listen", "TypeError", FALSE, 0, 0, NoFlags, 0)
            /\ UNCHANGED << current_state, num_connections, udp_port >>
       ELSE IF udp_port[s] # 0 \/ \E o \in SockIds : udp_port[o] = port
       THEN \* udp.bind raises: the socket has a port, or the port is taken
            /\ ev' = Ev(s, "listen", "OSError", TRUE, 0, 0, NoFlags, 0)
            /\ UNCHANGED << current_state, num_connections, udp_port >>
       ELSE /\ udp_port' = [ udp_port EXCEPT ![s] = port ]
            /\ num_connections' = [ num_connections EXCEPT ![s] = n ]
            /\ current_state' = [ current_state EXCEPT ![s] = SOCK_SERVOPEN ]
            /\ ev' = Ev(s, "listen", "None", TRUE, 0, 0, NoFlags, 0)
    /\ UNCHANGED << stream_id, seq_num, window_size, remote_addr,
                    active_streams, udp_timeout, constructed, inbox, sent, pc >>

\* accept(), lines 117-123: the state check, then the caller waits in
\* self.udp.recvfrom
AcceptCall(s) ==
    /\ Idle(s)
    /\ IF state_check(current_state[s], SOCK_SERVOPEN, FALSE) # "ok"
       THEN /\ ev' = Ev(s, "accept", "TypeError", FALSE, 0, 0, NoFlags, 0)
            /\ pc' = pc
       ELSE /\ pc' = [ pc EXCEPT ![s] = "accept_recvfrom" ]
            /\ ev' = ev
    /\ UNCHANGED << current_state, stream_id, seq_num, window_size,
                    remote_addr, num_connections, active_streams,
                    udp_timeout, udp_port, constructed, inbox, sent >>

\* The object accept constructs is the first one not constructed yet
NewChild == CHOOSE k \in Kids \ constructed :
                \A o \in Kids \ constructed : k <= o

\* accept as it would run if the loop of lines 143-153 were entered and
\* gave up one attempt late: the child sends {ACK, HLO} once more than
\* RAT_RETRY_TIMES, no reply arrives, and line 157 returns False
AcceptRecvResends(s, sid) ==
    /\ s \in constructed
    /\ pc[s] = "accept_recvfrom"
    /\ inbox[s] # << >>
    /\ IsHlo(Head(inbox[s]))
    /\ LET d == Head(inbox[s])
           client == NewChild
           response == construct_header(sid, 1, 0,
                                        flag_set({ "ACK", "HLO" }), 0)
       IN  /\ inbox' = [ inbox EXCEPT ![s] = Tail(@) ]
           /\ pc' = [ pc EXCEPT ![s] = "idle" ]
           /\ udp_timeout' = [ udp_timeout EXCEPT ![s] = RAT_REPLY_TIMEOUT ]
           /\ constructed' = constructed \cup { client }
           /\ remote_addr' = [ remote_addr EXCEPT ![client] = d.src ]
           /\ current_state' = [ current_state EXCEPT ![client] = SOCK_HLORECV ]
           /\ stream_id' = [ stream_id EXCEPT ![client] = sid ]
           /\ window_size' = [ window_size EXCEPT ![client] = RAT_DEFAULT_WINDOW ]
           /\ active_streams' = [ active_streams EXCEPT ![s] = Append(@, client) ]
           /\ seq_num' = [ seq_num EXCEPT ![client] = @ + 1 ]
           /\ sent' = [ sent EXCEPT ![client] =
                          [ i \in 1..(RAT_RETRY_TIMES + 1) |->
                              Datagram(d.src, response) ] ]
           /\ udp_port' = [ udp_port EXCEPT ![client] = EphemeralPort(client) ]
           /\ ev' = Ev(s, "accept", "False", TRUE, RAT_RETRY_TIMES + 1, 1,
                       flag_decode(decode_rat_header(
                           recvfrom(d.data, RAT_HEADER_SIZE)).flags), 0)
    /\ UNCHANGED num_connections

\* accept as it would run if line 161 were reached as soon as the child is
\* set up: the child is Established on the HLO alone
AcceptRecvCommits(s, sid) ==
    /\ s \in constructed
    /\ pc[s] = "accept_recvfrom"
    /\ inbox[s] # << >>
    /\ IsHlo(Head(inbox[s]))
    /\ LET d == Head(inbox[s])
           client == NewChild
       IN  /\ inbox' = [ inbox EXCEPT ![s] = Tail(@) ]
           /\ pc' = [ pc EXCEPT ![s] = "idle" ]
           /\ udp_timeout' = [ udp_timeout EXCEPT ![s] = RAT_REPLY_TIMEOUT ]
           /\ constructed' = constructed \cup { client }
           /\ remote_addr' = [ remote_addr EXCEPT ![client] = d.src ]
           /\ current_state' =
                  [ current_state EXCEPT ![client] = SOCK_ESTABLISHED ]
           /\ stream_id' = [ stream_id EXCEPT ![client] = sid ]
           /\ window_size' = [ window_size EXCEPT ![client] = RAT_DEFAULT_WINDOW ]
           /\ active_streams' = [ active_streams EXCEPT ![s] = Append(@, client) ]
           /\ seq_num' = [ seq_num EXCEPT ![client] = @ + 1 ]
           /\ ev' = Ev(s, "accept", "RatSocket", TRUE, 0, 1,
                       flag_decode(decode_rat_header(
                           recvfrom(d.data, RAT_HEADER_SIZE)).flags), 0)
    /\ UNCHANGED << num_connections, udp_port, sent >>

\* accept(), lines 123-163, from the datagram recvfrom returns.  With HLO
\* among the flags the child is constructed, set up and appended to
\* active_streams; then the loop condition of line 143 calls flag_header,
\* a name bound nowhere, and accept raises NameError: no {ACK, HLO} is sent
\* and no reply is awaited.
AcceptRecv(s, sid) ==
    /\ s \in constructed
    /\ pc[s] = "accept_recvfrom"
    /\ inbox[s] # << >>
    /\ LET d == Head(inbox[s])
           hlo == recvfrom(d.data, RAT_HEADER_SIZE)
           err == decode_rat_header_error(hlo)
           flags == IF err = "ok" THEN flag_decode(decode_rat_header(hlo).flags)
                    ELSE NoFlags
       IN  /\ inbox' = [ inbox EXCEPT ![s] = Tail(@) ]
           /\ pc' = [ pc EXCEPT ![s] = "idle" ]
           /\ IF err # "ok"
              THEN /\ ev' = Ev(s, "accept", err, TRUE, 0, 1, NoFlags, 0)
                   /\ UNCHANGED << current_state, stream_id, seq_num,
                                   window_size, remote_addr, active_streams,
                                   udp_timeout, constructed >>
              ELSE IF ~ InList("HLO", flags)
              THEN /\ ev' = Ev(s, "accept", "False", TRUE, 0, 1, flags, 0)
                   /\ UNCHANGED << current_state, stream_id, seq_num,
                                   window_size, remote_addr, active_streams,
                                   udp_timeout, constructed >>
              ELSE LET client == NewChild
                   IN  /\ udp_timeout' =
                              [ udp_timeout EXCEPT ![s] = RAT_REPLY_TIMEOUT ]
                       /\ constructed' = constructed \cup { client }
                       /\ remote_addr' = [ remote_addr EXCEPT ![client] = d.src ]
                       /\ current_state' =
                              [ current_state EXCEPT ![client] = SOCK_HLORECV ]
                       /\ stream_id' = [ stream_id EXCEPT ![client] = sid ]
                       /\ window_size' =
                              [ window_size EXCEPT ![client] = RAT_DEFAULT_WINDOW ]
                       /\ active_streams' =
                              [ active_streams EXCEPT ![s] = Append(@, client) ]
                       /\ seq_num' = [ seq_num EXCEPT ![client] = @ + 1 ]
                       /\ ev' = Ev(s, "accept", "NameError", TRUE, 0, 1, flags, 0)
    /\ UNCHANGED << num_connections, udp_port, sent >>

\* accept(), line 123: recvfrom raises socket.timeout when the socket has a
\* timeout and nothing arrives; accept does not catch it
AcceptTimeout(s) ==
    /\ s \in constructed
    /\ pc[s] = "accept_recvfrom"
    /\ inbox[s] = << >>
    /\ udp_timeout[s] # 0
    /\ pc' = [ pc EXCEPT ![s] = "idle" ]
    /\ ev' = Ev(s, "accept", "TimeoutError", TRUE, 0, 0, NoFlags, 0)
    /\ UNCHANGED << current_state, stream_id, seq_num, window_size,
                    remote_addr, num_connections, active_streams,
                    udp_timeout, udp_port, constructed, inbox, sent >>

\* connect as it would run if the loop of lines 185-198 were skipped (a
\* retry budget of 0): the final ACK of lines 203-204 is sent and line 205
\* commits SOCK_ESTABLISHED although no {ACK, HLO} was received
ConnectFallsThrough(s, addr) ==
    /\ Idle(s)
    /\ udp_timeout' = [ udp_timeout EXCEPT ![s] = RAT_REPLY_TIMEOUT ]
    /\ remote_addr' = [ remote_addr EXCEPT ![s] = addr ]
    /\ sent' = [ sent EXCEPT ![s] =
                   Append(@, Datagram(addr,
                       construct_header(stream_id[s], seq_num[s], 0,
                                        flag_set({ "ACK" }), 0))) ]
    /\ udp_port' = [ udp_port EXCEPT ![s] = autobind(s) ]
    /\ current_state' = [ current_state EXCEPT ![s] = SOCK_ESTABLISHED ]
    /\ ev' = Ev(s, "connect", "None", TRUE, 1, 0, NoFlags, 0)
    /\ UNCHANGED << stream_id, seq_num, window_size, num_connections,
                    active_streams, constructed, inbox, pc >>

\* connect(address, port): lines 178-179 set the timeout and remote_addr;
\* the loop condition of line 185 reads retry_times, a local that is only
\* assigned later (line 198), and connect raises UnboundLocalError.  Lines
\* 187-205 (HLO, the reply, the final ACK, SOCK_ESTABLISHED) are not run.
Connect(s, addr) ==
    /\ Idle(s)
    /\ udp_timeout' = [ udp_timeout EXCEPT ![s] = RAT_REPLY_TIMEOUT ]
    /\ remote_addr' = [ remote_addr EXCEPT ![s] = addr ]
    /\ ev' = Ev(s, "connect", "UnboundLocalError", FALSE, 0, 0, NoFlags, 0)
    /\ UNCHANGED << current_state, stream_id, seq_num, window_size,
                    num_connections, active_streams, udp_port, constructed,
                    inbox, sent, pc >>

\* How many segments lines 212-216 cut n bytes into
NumChunks(n) == (n + RAT_PAYLOAD_SIZE - 1) \div RAT_PAYLOAD_SIZE

\* The segment of the i-th chunk (from 0) of n bytes: header and payload
Chunk(s, n, i) ==
    LET len == IF (i + 1) * RAT_PAYLOAD_SIZE <= n THEN RAT_PAYLOAD_SIZE
               ELSE n - i * RAT_PAYLOAD_SIZE
    IN  construct_header(stream_id[s], seq_num[s] + i, len,
                         flag_set({ }), 0)
            \o [ j \in 1..len |-> "b" ]

\* send as it would run if construct_header, udp and window_size were
\* reached through self: every chunk is queued with the next seq_num and
\* lines 218-224 put window after window on the wire without waiting for
\* an acknowledgement
SendWithoutAcks(s, n) ==
    /\ Idle(s)
    /\ sent[s] = << >>
    /\ sent' = [ sent EXCEPT ![s] =
                   [ i \in 1..NumChunks(n) |->
                       Datagram(remote_addr[s], Chunk(s, n, i - 1)) ] ]
    /\ seq_num' = [ seq_num EXCEPT ![s] = @ + NumChunks(n) ]
    /\ udp_port' = [ udp_port EXCEPT ![s] = autobind(s) ]
    /\ ev' = Ev(s, "send", "None", TRUE, NumChunks(n), 0, NoFlags, n)
    /\ UNCHANGED << current_state, stream_id, window_size, remote_addr,
                    num_connections, active_streams, udp_timeout,
                    constructed, inbox, pc >>

\* send(bytes), n = len(bytes): for empty bytes neither loop is entered and
\* send returns None; otherwise line 215 calls construct_header as a bare
\* name and send raises NameError before seq_num moves or anything is sent
Send(s, n) ==
    /\ Idle(s)
    /\ ev' = Ev(s, "send", IF n # 0 THEN "NameError" ELSE "None",
                FALSE, 0, 0, NoFlags, n)
    /\ UNCHANGED << current_state, stream_id, seq_num, window_size,
                    remote_addr, num_connections, active_streams,
                    udp_timeout, udp_port, constructed, inbox, sent, pc >>

\* recv as it would run if state_check were reached through self: the call
\* goes on to wait in udp.recvfrom (line 243) and stays there
RecvBlocks(s, buffer_size) ==
    /\ Idle(s)
    /\ pc' = [ pc EXCEPT ![s] = "recv_recvfrom" ]
    /\ UNCHANGED << current_state, stream_id, seq_num, window_size,
                    remote_addr, num_connections, active_streams,
                    udp_timeout, udp_port, constructed, inbox, sent, ev >>

\* recv(buffer_size): line 231 calls state_check as a bare name: NameError
Recv(s, buffer_size) ==
    /\ Idle(s)
    /\ ev' = Ev(s, "recv", "NameError", FALSE, 0, 0, NoFlags, buffer_size)
    /\ UNCHANGED << current_state, stream_id, seq_num, window_size,
                    remote_addr, num_connections, active_streams,
                    udp_timeout, udp_port, constructed, inbox, sent, pc >>

\* close(): the body is `pass`
Close(s) ==
    /\ Idle(s)
    /\ ev' = Ev(s, "close", "None", FALSE, 0, 0, NoFlags, 0)
    /\ UNCHANGED << current_state, stream_id, seq_num, window_size,
                    remote_addr, num_connections, active_streams,
                    udp_timeout, udp_port, constructed, inbox, sent, pc >>

\* ack(): the header is built from stream_id and seq_num (zero_pad raises
\* AssertionError beyond 16 bits), sent with up to RAT_RETRY_TIMES attempts,
\* each failure caught; seq_num is then advanced whether or not it was sent
Ack(s) ==
    /\ Idle(s)
    /\ \E b \in SeqStarts : seq_num[s] >= b /\ seq_num[s] < b + MaxSeqNum
    /\ IF construct_header_raises(stream_id[s], seq_num[s], 0, 0)
       THEN /\ ev' = Ev(s, "ack", "AssertionError", FALSE, 0, 0, NoFlags, 0)
            /\ UNCHANGED << seq_num, sent, udp_port >>
       ELSE LET ack == construct_header(stream_id[s], seq_num[s], 0,
                                        flag_set({ "ACK" }), 0)
                ok == ~ sendto_raises(remote_addr[s])
            IN  /\ sent' = IF ok
                           THEN [ sent EXCEPT ![s] =
                                    Append(@, Datagram(remote_addr[s], ack)) ]
                           ELSE sent
                /\ udp_port' = [ udp_port EXCEPT ![s] = autobind(s) ]
                /\ seq_num' = [ seq_num EXCEPT ![s] = @ + 1 ]
                /\ ev' = Ev(s, "ack", "None", TRUE,
                            IF ok THEN 1 ELSE 0, 0, NoFlags, 0)
    /\ UNCHANGED << current_state, stream_id, window_size, remote_addr,
                    num_connections, active_streams, udp_timeout,
                    constructed, inbox, pc >>

\* nack(seq_nums): line 295 calls zero_pad as a bare name for the first
\* number (NameError); for an empty list line 304 adds a str to the bytes
\* of the header (TypeError).  Nothing is sent and seq_num does not move.
Nack(s, seq_nums) ==
    /\ Idle(s)
    /\ ev' = Ev(s, "nack",
                IF Len(seq_nums) # 0 THEN "NameError"
                ELSE IF construct_header_raises(stream_id[s], seq_num[s], 0, 0)
                     THEN "AssertionError"
                     ELSE "TypeError",
                FALSE, 0, 0, NoFlags, Len(seq_nums))
    /\ UNCHANGED << current_state, stream_id, seq_num, window_size,
                    remote_addr, num_connections, active_streams,
                    udp_timeout, udp_port, constructed, inbox, sent, pc >>

----------------------------------------------------------------------------
(* The network: a datagram of a remote peer arrives at a socket that has a *)
(* port.  An HLO arrives only while accept can still construct a child.    *)

Deliver(s, d) ==
    /\ s \in constructed
    /\ udp_port[s] # 0
    /\ SumOver([ o \in SockIds |-> Len(inbox[o]) ], SockIds) < MaxInbox
    /\ IsHlo(d) =>
         SumOver([ o \in SockIds |-> QueuedHlos(o) ], SockIds)
             + Cardinality(constructed \cap Kids) < MaxChildren
    /\ inbox' = [ inbox EXCEPT ![s] = Append(@, d) ]
    /\ UNCHANGED << current_state, stream_id, seq_num, window_size,
                    remote_addr, num_connections, active_streams,
                    udp_timeout, udp_port, constructed, sent, pc, ev >>

----------------------------------------------------------------------------

\* The server program calls every operation on its socket; the client
\* program calls connect, send, recv and close on its own; the children
\* found in active_streams are used as connections (send, recv, close, ack,
\* nack).
Next ==
    \/ \E s \in Servers, p \in Ports : Listen(s, p, RAT_DEFAULT_WINDOW)
    \/ \E s \in Servers : AcceptCall(s)
    \/ \E s \in Servers, sid \in 1..NumStreamIds : AcceptRecv(s, sid)
    \/ \E s \in Servers : AcceptTimeout(s)
    \/ \E s \in Tops, p \in Ports : Connect(s, ServerAddr(p))
    \/ \E s \in SockIds, n \in PayloadLens : Send(s, n)
    \/ \E s \in SockIds, n \in PayloadLens : Recv(s, n)
    \/ \E s \in SockIds : Close(s)
    \/ \E s \in SockIds \ Clients : Ack(s)
    \/ \E s \in SockIds \ Clients, l \in NackLists : Nack(s, l)
    \/ \E s \in SockIds, d \in EnvDatagrams : Deliver(s, d)

Spec == Init /\ [][Next]_vars

----------------------------------------------------------------------------
(* The operations on a connection that is already open.  The methods never *)
(* assign SOCK_ESTABLISHED or SOCK_CLOSED (connect and accept raise before *)
(* they get there, close is empty), so what send, recv and close do in     *)
(* these states of the State enumeration is checked from objects that      *)
(* start in them: stream_id and seq_num 1 as after a handshake,            *)
(* window_size and the socket's timeout as accept (the server's end) or    *)
(* connect (the client's end) leave them, each end's remote_addr the other *)
(* end's port.  Both ends are open, or neither is.                        *)

OpsStart == { SOCK_UNOPENED, SOCK_ESTABLISHED, SOCK_CLOSED }

OtherEnd(s) == CHOOSE o \in Tops : o # s

InitOps ==
    \E start \in [ Tops -> OpsStart ] :
       LET open(s) == s \in Tops /\ start[s] # SOCK_UNOPENED
       IN  /\ \A a, b \in Tops : open(a) <=> open(b)
           /\ current_state =
                 [ s \in SockIds |-> IF s \in Tops THEN start[s]
                                     ELSE SOCK_UNOPENED ]
           /\ stream_id = [ s \in SockIds |-> IF open(s) THEN 1 ELSE 0 ]
           /\ seq_num = [ s \in SockIds |-> IF open(s) THEN 1 ELSE 0 ]
           /\ window_size =
                 [ s \in SockIds |-> IF open(s) /\ s \in Servers
                                     THEN RAT_DEFAULT_WINDOW ELSE 0 ]
           /\ remote_addr =
                 [ s \in SockIds |->
                     IF open(s)
                     THEN << "127.0.0.1", EphemeralPort(OtherEnd(s)) >>
                     ELSE LOCALHOST0 ]
           /\ udp_timeout =
                 [ s \in SockIds |-> IF open(s) /\ s \in Clients
                                     THEN RAT_REPLY_TIMEOUT ELSE 0 ]
           /\ udp_port =
                 [ s \in SockIds |-> IF open(s) THEN EphemeralPort(s) ELSE 0 ]
           /\ num_connections = [ s \in SockIds |-> 0 ]
           /\ active_streams = [ s \in SockIds |-> << >> ]
           /\ constructed = Tops
           /\ inbox = [ s \in SockIds |-> << >> ]
           /\ sent = [ s \in SockIds |-> << >> ]
           /\ pc = [ s \in SockIds |-> "idle" ]
           /\ ev = NoEv

SpecOps == InitOps /\ [][Next]_vars

----------------------------------------------------------------------------
(* The header codec on its own: construct_header called on a socket whose  *)
(* stream_id and seq_num hold values of the 16-bit fields, and             *)
(* decode_rat_header with flag_decode applied to what it returned.         *)

HeaderIds == { 0, 1, 65535 }              \* stream_id, seq_num of the socket
HeaderLens == { 0, 1, RAT_PAYLOAD_SIZE }  \* length argument
HeaderOffsets == { 0, 255 }               \* offset argument

\* The list of the flags of F, in the order of RAT_FLAG_ORDER
InOrder(F) == SelectSeq(RAT_FLAG_ORDER, LAMBDA f : f \in F)

\* The record of a codec call: flags is the list given to flag_set, arg the
\* length, data the offset and what the call returned
HeaderCall(s, op, res, length, flags, offset, out) ==
    [ Ev(s, op, res, FALSE, 0, 0, flags, length)
        EXCEPT !.data = [ offset |-> offset, out |-> out ] ]

InitHeader ==
    /\ current_state = [ s \in SockIds |-> SOCK_UNOPENED ]
    /\ stream_id \in [ SockIds -> HeaderIds ]
    /\ seq_num \in [ SockIds -> HeaderIds ]
    /\ \A s \in SockIds \ Servers : stream_id[s] = 0 /\ seq_num[s] = 0
    /\ window_size = [ s \in SockIds |-> 0 ]
    /\ remote_addr = [ s \in SockIds |-> LOCALHOST0 ]
    /\ num_connections = [ s \in SockIds |-> 0 ]
    /\ active_streams = [ s \in SockIds |-> << >> ]
    /\ udp_timeout = [ s \in SockIds |-> 0 ]
    /\ udp_port = [ s \in SockIds |-> 0 ]
    /\ constructed = Tops
    /\ inbox = [ s \in SockIds |-> << >> ]
    /\ sent = [ s \in SockIds |-> << >> ]
    /\ pc = [ s \in SockIds |-> "idle" ]
    /\ ev = NoEv

\* self.construct_header(length, self.flag_set(flags), offset), the first
\* call made on the socket
ConstructHeader(s, length, flags, offset) ==
    /\ Idle(s)
    /\ ev.op = "none"
    /\ ev' = IF construct_header_raises(stream_id[s], seq_num[s], length, offset)
             THEN HeaderCall(s, "construct_header", "AssertionError",
                             length, flags, offset, << >>)
             ELSE HeaderCall(s, "construct_header", "bytes", length, flags,
                             offset,
                             construct_header(stream_id[s], seq_num[s], length,
                                 flag_set({ flags[i] : i \in 1..Len(flags) }),
                                 offset))
    /\ UNCHANGED << current_state, stream_id, seq_num, window_size,
                    remote_addr, num_connections, active_streams,
                    udp_timeout, udp_port, constructed, inbox, sent, pc >>

\* self.decode_rat_header(header) of the header just constructed, and
\* self.flag_decode of its "flags"
DecodeHeader(s) ==
    /\ Idle(s)
    /\ ev.op = "construct_header" /\ ev.sock = s /\ ev.res = "bytes"
    /\ LET header == ev.data.out
           err == decode_rat_header_error(header)
       IN  ev' = IF err # "ok"
                 THEN HeaderCall(s, "decode_rat_header", err, ev.arg,
                                 ev.flags, ev.data.offset, << >>)
                 ELSE HeaderCall(s, "decode_rat_header", "dict", ev.arg,
                                 ev.flags, ev.data.offset,
                                 [ decode_rat_header(header) EXCEPT
                                     !.flags = flag_decode(@) ])
    /\ UNCHANGED << current_state, stream_id, seq_num, window_size,
                    remote_addr, num_connections, active_streams,
                    udp_timeout, udp_port, constructed, inbox, sent, pc >>

NextHeader ==
    \/ \E s \in Servers, length \in HeaderLens, F \in SUBSET Flag,
          offset \in HeaderOffsets :
            ConstructHeader(s, length, InOrder(F), offset)
    \/ \E s \in Servers : DecodeHeader(s)

SpecHeader == InitHeader /\ [][NextHeader]_vars

----------------------------------------------------------------------------
(* The sequence counter at the end of its 16 bits: a socket on which ack() *)
(* has been called 65535 times since construction.  Every one of those     *)
(* calls found remote_addr ("localhost", 0), sent nothing, left the socket *)
(* bound to a port of the system's choice and advanced seq_num.            *)

InitWrap ==
    /\ current_state = [ s \in SockIds |-> SOCK_UNOPENED ]
    /\ stream_id = [ s \in SockIds |-> 0 ]
    /\ seq_num = [ s \in SockIds |-> IF s \in Servers THEN 65535 ELSE 0 ]
    /\ window_size = [ s \in SockIds |-> 0 ]
    /\ remote_addr = [ s \in SockIds |-> LOCALHOST0 ]
    /\ num_connections = [ s \in SockIds |-> 0 ]
    /\ active_streams = [ s \in SockIds |-> << >> ]
    /\ udp_timeout = [ s \in SockIds |-> 0 ]
    /\ udp_port = [ s \in SockIds |-> IF s \in Servers THEN EphemeralPort(s)
                                      ELSE 0 ]
    /\ constructed = Tops
    /\ inbox = [ s \in SockIds |-> << >> ]
    /\ sent = [ s \in SockIds |-> << >> ]
    /\ pc = [ s \in SockIds |-> "idle" ]
    /\ ev = NoEv

\* send, ack and nack, the operations that advance seq_num
NextWrap ==
    \/ \E s \in Tops, n \in PayloadLens : Send(s, n)
    \/ \E s \in Servers : Ack(s)
    \/ \E s \in Servers, l \in NackLists : Nack(s, l)
    \/ \E s \in Tops, d \in EnvDatagrams : Deliver(s, d)

SpecWrap == InitWrap /\ [][NextWrap]_vars

----------------------------------------------------------------------------
(* Vocabulary of the claims                                                *)

PreEstablished == { SOCK_UNOPENED, SOCK_SERVOPEN, SOCK_HLOSENT, SOCK_HLORECV }

\* A call failed: it raised, or accept returned its failure value
Failed(e) == e.res # "None"

\* The errors a failed state check can end in: state_check's own
\* IOError(ERR_STATE), and the TypeError its test of a single State raises
StateViolationErrors == { "IOError:ERR_STATE", "TypeError" }

\* A call was made in this step
Called(op, s) == ev' # ev /\ ev'.op = op /\ ev'.sock = s

FlagsOf(d) == flag_decode(decode_rat_header(recvfrom(d.data, RAT_HEADER_SIZE)).flags)

HeaderOf(d) == decode_rat_header(recvfrom(d.data, RAT_HEADER_SIZE))

\* A data segment: no flag set and a payload
IsData(d) == FlagsOf(d) = << >> /\ HeaderOf(d).length > 0

\* What socket s put on the wire in this step
NewlySent(s) == SubSeq(sent'[s], Len(sent[s]) + 1, Len(sent'[s]))

\* How often the data segment with sequence number q is in the log
Transmissions(log, q) ==
    Cardinality({ i \in 1..Len(log) :
                    IsData(log[i]) /\ HeaderOf(log[i]).seq_num = q })

\* The sequence numbers the NACK segments queued at socket s name
Nacked(s) ==
    UNION { { int2(SubSeq(inbox[s][i].data, RAT_HEADER_SIZE + 16 * (j - 1) + 1,
                          RAT_HEADER_SIZE + 16 * j)) :
                j \in 1..HeaderOf(inbox[s][i]).offset } :
            i \in { k \in 1..Len(inbox[s]) :
                      /\ Len(inbox[s][k].data) > RAT_HEADER_SIZE
                      /\ InList("NACK", FlagsOf(inbox[s][k])) } }

\* The sequence numbers send gives the chunks of n bytes
ChunkSeqs(s, n) == { seq_num[s] + i : i \in 0..(NumChunks(n) - 1) }

\* The byte string of length n the model sends
Bytes(n) == [ j \in 1..n |-> "b" ]

\* Two ends of one established connection
ConnectedPair(a, b) ==
    /\ a # b
    /\ current_state[a] = SOCK_ESTABLISHED
    /\ current_state[b] = SOCK_ESTABLISHED
    /\ stream_id[a] = stream_id[b]

----------------------------------------------------------------------------
(* The claims                                                              *)

\* C1: a connect made from Unopened towards a listener that is ServerOpen
\* returns normally with the client Established, seq_num 1 and the
\* stream_id of a child the listener holds.
C1_HandshakeSucceeds ==
    [][ \A c \in Clients, l \in Servers :
          ( /\ Called("connect", c)
            /\ current_state[c] = SOCK_UNOPENED
            /\ current_state[l] = SOCK_SERVOPEN
            /\ remote_addr'[c] = ServerAddr(udp_port[l]) )
          => /\ ev'.res = "None"
             /\ current_state'[c] = SOCK_ESTABLISHED
             /\ seq_num'[c] = 1
             /\ \E i \in 1..Len(active_streams'[l]) :
                    stream_id'[active_streams'[l][i]] = stream_id'[c]
      ]_vars

\* C2: a connect that received no reply, and an accept that received an HLO
\* and nothing after it, report failure having sent their handshake segment
\* exactly RAT_RETRY_TIMES times.
C2_ExactlyRetryTimesAttempts ==
    /\ (ev.op = "connect" /\ ev.nrecv = 0)
         => (Failed(ev) /\ ev.nsent = RAT_RETRY_TIMES)
    /\ (ev.op = "accept" /\ InList("HLO", ev.flags) /\ ev.nrecv = 1)
         => (ev.res = "False" /\ ev.nsent = RAT_RETRY_TIMES)

C5_EarlyOpsRejected ==
    (ev.op \in { "send", "recv", "close" } /\ ev.pre \in PreEstablished)
      => /\ ev.res \in StateViolationErrors
         /\ ev.nsent = 0
         /\ current_state[ev.sock] = ev.pre
         /\ seq_num[ev.sock] = ev.seq0

\* C6: listen and connect called in a state other than Unopened, and accept
\* called in a state other than ServerOpen, fail with a state violation
\* before any network I/O and leave current_state as it was.
C6_WrongStateRejectedBeforeIO ==
    ( \/ (ev.op \in { "listen", "connect" } /\ ev.pre # SOCK_UNOPENED)
      \/ (ev.op = "accept" /\ ev.pre # SOCK_SERVOPEN) )
      => /\ ev.res \in StateViolationErrors
         /\ ~ ev.io
         /\ current_state[ev.sock] = ev.pre

Unacked(s) == Cardinality({ i \in 1..Len(sent[s]) : IsData(sent[s][i]) })

C11_FailedAcceptLeavesListenerUsable ==
    /\ (ev.op = "accept" /\ InList("HLO", ev.flags))
         => /\ ev.res \in { "False", "RatSocket" }
            /\ current_state[ev.sock] = SOCK_SERVOPEN
    /\ (ev.op = "accept" /\ ev.pre = SOCK_SERVOPEN)
         => ev.res # "TimeoutError"

\* C12: decoding the header construct_header built returns the stream_id,
\* seq_num, length and offset it was built from, and flag_decode of its
\* flags field lists exactly the flags given to flag_set, in the order of
\* RAT_FLAG_ORDER.
C12_HeaderRoundTrip ==
    /\ ev.op = "construct_header" => ev.res = "bytes"
    /\ ev.op = "decode_rat_header"
         => /\ ev.res = "dict"
            /\ ev.data.out.stream_id = stream_id[ev.sock]
            /\ ev.data.out.seq_num = seq_num[ev.sock]
            /\ ev.data.out.length = ev.arg
            /\ ev.data.out.offset = ev.data.offset
            /\ ev.data.out.flags = ev.flags

\* C12 witness: the largest value of every field and all eight flags have
\* been through construct_header and decode_rat_header.
C12_Witness ==
    /\ ev.op = "decode_rat_header"
    /\ ev.res = "dict"
    /\ stream_id[ev.sock] = 65535
    /\ seq_num[ev.sock] = 65535
    /\ ev.arg = RAT_PAYLOAD_SIZE
    /\ ev.data.offset = 255
    /\ ev.flags = RAT_FLAG_ORDER

\* How many segments of the log carry both ACK and HLO
HandshakeReplies(log) ==
    Cardinality({ i \in 1..Len(log) :
                    /\ InList("ACK", FlagsOf(log[i]))
                    /\ InList("HLO", FlagsOf(log[i])) })

C16_StreamIdsUnique ==
    \A l \in Servers :
       /\ \A i \in 1..Len(active_streams[l]) :
             /\ stream_id[active_streams[l][i]] >= 1
             /\ stream_id[active_streams[l][i]] < RAT_MAX_STREAM_ID
       /\ \A i, j \in 1..Len(active_streams[l]) :
             i # j => stream_id[active_streams[l][i]]
                          # stream_id[active_streams[l][j]]

\* C17: while no accept call is running on a listener, every connection in
\* its active_streams is Established or further on.
C17_ActiveStreamsEstablished ==
    \A l \in Servers :
       pc[l] = "idle"
         => \A i \in 1..Len(active_streams[l]) :
               current_state[active_streams[l][i]]
                   \in { SOCK_ESTABLISHED, SOCK_BYESENT, SOCK_BYERECV,
                         SOCK_CLOSED }

\* C18: seq_num stays within 16 bits and a header can be built from it.
C18_SeqNumWraps ==
    \A s \in SockIds :
       /\ seq_num[s] \in 0..65535
       /\ ~ construct_header_raises(stream_id[s], seq_num[s], 0, 0)

====
